---- MODULE Spec2Model ----
(***************************************************************************)
(* Model of the path query engine of APIKernal.py: parse_response and its  *)
(* nested resolve_path.  A decoded JSON value is a tagged record, a string *)
(* (a path, an object key, a JSON string) is a sequence of one-character   *)
(* strings, and a Python exception is an outcome [t |-> "raise"] that the  *)
(* try/except blocks of the source catch by kind.                          *)
(***************************************************************************)
EXTENDS Integers, Sequences, FiniteSets, TLC

\* data, paths: the arguments the caller holds; result: what the last call
\* returned or raised; ncalls: the calls made so far; py312: whether the
\* interpreter is CPython 3.12 or later, where a slice is hashable and
\* dict[slice] raises KeyError instead of TypeError
VARIABLES data, paths, result, ncalls, py312

vars == <<data, paths, result, ncalls, py312>>

(***************************************************************************)
(* Values (typing.Any restricted to what json.loads produces)              *)
(***************************************************************************)
Null == [t |-> "null"]
Bool(b) == [t |-> "bool", b |-> b]
Num(n) == [t |-> "num", n |-> n]
Str(s) == [t |-> "str", s |-> s]
Arr(s) == [t |-> "arr", v |-> s]
Obj(f) == [t |-> "obj", o |-> f]
Raise(e) == [t |-> "raise", e |-> e]

IsRaise(x) == x.t = "raise"

\* isinstance(x, (list, tuple)); json.loads never builds a tuple
IsList(x) == x.t = "arr"

\* isinstance(x, dict)
IsDict(x) == x.t = "obj"

(***************************************************************************)
(* str methods used by the source                                          *)
(***************************************************************************)
Whitespace == {" "}

Digits == {"0", "1", "2", "3", "4", "5", "6", "7", "8", "9"}

DigitVal(c) ==
  CASE c = "0" -> 0 [] c = "1" -> 1 [] c = "2" -> 2 [] c = "3" -> 3
    [] c = "4" -> 4 [] c = "5" -> 5 [] c = "6" -> 6 [] c = "7" -> 7
    [] c = "8" -> 8 [] c = "9" -> 9

RECURSIVE LStrip(_)
LStrip(s) ==
  IF s # <<>> /\ Head(s) \in Whitespace THEN LStrip(Tail(s)) ELSE s

RECURSIVE RStrip(_)
RStrip(s) ==
  IF s # <<>> /\ s[Len(s)] \in Whitespace
  THEN RStrip(SubSeq(s, 1, Len(s) - 1))
  ELSE s

\* str.strip()
Strip(s) == RStrip(LStrip(s))

\* str.split(sep) for a one-character separator
RECURSIVE Split(_, _)
Split(s, sep) ==
  IF \E i \in 1..Len(s) : s[i] = sep
  THEN LET i == CHOOSE k \in 1..Len(s) :
                  s[k] = sep /\ \A j \in 1..(k - 1) : s[j] # sep
       IN <<SubSeq(s, 1, i - 1)>> \o Split(SubSeq(s, i + 1, Len(s)), sep)
  ELSE <<s>>

\* sep in s
Contains(s, sep) == \E i \in 1..Len(s) : s[i] = sep

\* str.isdigit()
IsDigit(s) == s # <<>> /\ \A i \in 1..Len(s) : s[i] \in Digits

RECURSIVE DecVal(_)
DecVal(ds) ==
  IF ds = <<>> THEN 0
  ELSE 10 * DecVal(SubSeq(ds, 1, Len(ds) - 1)) + DigitVal(ds[Len(ds)])

\* int(s): surrounding whitespace and one sign are accepted, then digits;
\* anything else is a ValueError
ParseInt(s) ==
  LET body == Strip(s)
      signed == body # <<>> /\ Head(body) \in {"+", "-"}
      ds == IF signed THEN Tail(body) ELSE body
  IN IF ~IsDigit(ds) THEN Raise("ValueError")
     ELSE IF signed /\ Head(body) = "-" THEN Num(0 - DecVal(ds))
     ELSE Num(DecVal(ds))

SetMin(S) == CHOOSE x \in S : \A y \in S : x <= y

\* index_pattern.search(current) with index_pattern = \[(.*?)\]: the
\* leftmost "[" that has a "]" after it, up to the nearest such "]"
IndexSearch(s) ==
  LET opens == {i \in 1..Len(s) :
                  s[i] = "[" /\ \E j \in (i + 1)..Len(s) : s[j] = "]"}
  IN IF opens = {} THEN [found |-> FALSE, start |-> 0, group |-> <<>>]
     ELSE LET i == SetMin(opens)
              j == SetMin({k \in (i + 1)..Len(s) : s[k] = "]"})
          IN [found |-> TRUE, start |-> i - 1, group |-> SubSeq(s, i + 1, j - 1)]

(***************************************************************************)
(* Subscription and len() on a value                                       *)
(***************************************************************************)
\* the items of a list, or the one-character strings of a str
Elems(obj) ==
  IF obj.t = "arr" THEN obj.v ELSE [i \in 1..Len(obj.s) |-> Str(<<obj.s[i]>>)]

\* obj[idx] with an int idx
GetItem(obj, idx) ==
  IF obj.t \in {"arr", "str"}
  THEN LET n == Len(Elems(obj))
           k == IF idx < 0 THEN idx + n ELSE idx
       IN IF k < 0 \/ k >= n THEN Raise("IndexError") ELSE Elems(obj)[k + 1]
  ELSE IF obj.t = "obj" THEN Raise("KeyError")
  ELSE Raise("TypeError")

\* len(obj)
PyLen(obj) ==
  IF obj.t \in {"arr", "str"} THEN Num(Len(Elems(obj)))
  ELSE IF obj.t = "obj" THEN Num(Cardinality(DOMAIN obj.o))
  ELSE Raise("TypeError")

RECURSIVE SliceRange(_, _, _)
SliceRange(i, stop, step) ==
  IF (step > 0 /\ i < stop) \/ (step < 0 /\ i > stop)
  THEN <<i>> \o SliceRange(i + step, stop, step)
  ELSE <<>>

Clamp(x, lo, hi) == IF x < lo THEN lo ELSE IF x > hi THEN hi ELSE x

\* the 0-based positions seq[start:stop:step] selects in a sequence of
\* length n when all three are given as ints (step # 0)
SliceIndices(n, start, stop, step) ==
  LET lower == IF step > 0 THEN 0 ELSE 0 - 1
      upper == IF step > 0 THEN n ELSE n - 1
      s == IF start < 0 THEN Clamp(start + n, lower, upper)
           ELSE Clamp(start, lower, upper)
      e == IF stop < 0 THEN Clamp(stop + n, lower, upper)
           ELSE Clamp(stop, lower, upper)
  IN SliceRange(s, e, step)

\* list(obj[start:end:step]) as the for loop of the slice branch sees it
GetSlice(obj, start, end, step) ==
  IF obj.t \in {"arr", "str"}
  THEN IF step = 0 THEN Raise("ValueError")
       ELSE LET ix == SliceIndices(Len(Elems(obj)), start, end, step)
            IN Arr([k \in 1..Len(ix) |-> Elems(obj)[ix[k] + 1]])
  ELSE IF obj.t = "obj"
       THEN IF py312 THEN Raise("KeyError") ELSE Raise("TypeError")
  ELSE Raise("TypeError")

(***************************************************************************)
(* resolve_path.  A call returns [out, dot, grow]: out is the value the    *)
(* call returns or the exception it raises; dot and grow record whether    *)
(* the call tree took the embedded-dot fallback and whether any recursive  *)
(* call was handed a segment list that is not shorter than its caller's.   *)
(***************************************************************************)
Ret(x) == [out |-> x, dot |-> FALSE, grow |-> FALSE]

Merge(a, b, x) == [out |-> x, dot |-> a.dot \/ b.dot, grow |-> a.grow \/ b.grow]

\* try: <r> except <kinds>: return None
Except(r, kinds) ==
  IF IsRaise(r.out) /\ r.out.e \in kinds THEN [r EXCEPT !.out = Null] ELSE r

RECURSIVE resolve_path(_, _)

\* resolve_path(obj, newparts) called from the call whose list is parts
Recurse(obj, newparts, parts) ==
  LET r == resolve_path(obj, newparts)
  IN [r EXCEPT !.grow = @ \/ Len(newparts) >= Len(parts)]

\* FieldDescent with a field that cannot be applied ending the resolution
FieldDescent_Abort(obj, field) ==
  IF field = <<>> THEN obj
  ELSE IF IsDict(obj) /\ field \in DOMAIN obj.o THEN obj.o[field]
  ELSE IF IsList(obj) /\ IsDigit(field) THEN GetItem(obj, DecVal(field))
  ELSE Null

\* if field: obj = obj[field] / obj = obj[int(field)]
FieldDescent(obj, field) ==
  IF field = <<>> THEN obj
  ELSE IF IsDict(obj) /\ field \in DOMAIN obj.o THEN obj.o[field]
  ELSE IF IsList(obj) /\ IsDigit(field) THEN GetItem(obj, DecVal(field))
  ELSE obj

\* ExtendOrAppend with every result appended as one entry
ExtendOrAppend_AppendOnly(results, res) == Append(results, res)

\* if isinstance(result, list): results.extend(result) else: results.append(result)
ExtendOrAppend(results, res) ==
  IF IsList(res) THEN results \o res.v ELSE Append(results, res)

\* for item in items: result = resolve_path(item, remaining); ...; return results
RECURSIVE Expand(_, _, _, _)
Expand(items, remaining, parts, acc) ==
  IF items = <<>> THEN acc
  ELSE LET r == Recurse(Head(items), remaining, parts)
       IN IF IsRaise(r.out) THEN Merge(acc, r, r.out)
          ELSE Expand(Tail(items), remaining, parts,
                      Merge(acc, r, Arr(ExtendOrAppend(acc.out.v, r.out))))

\* index_expr == '*'
WildcardBranch(obj, remaining, parts) ==
  IF ~IsList(obj) THEN Ret(Null)
  ELSE Expand(obj.v, remaining, parts, Ret(Arr(<<>>)))

\* the start, end and step the slice branch computes from index_expr
SliceBounds(obj, index_expr) ==
  LET indices == Split(index_expr, ":")
  IN [start |-> IF indices[1] # <<>> THEN ParseInt(indices[1]) ELSE Num(0),
      end |-> IF Len(indices) > 1 /\ indices[2] # <<>>
              THEN ParseInt(indices[2]) ELSE PyLen(obj),
      step |-> IF Len(indices) > 2 /\ indices[3] # <<>>
               THEN ParseInt(indices[3]) ELSE Num(1)]

\* ':' in index_expr
SliceBranch(obj, index_expr, remaining, parts) ==
  LET b == SliceBounds(obj, index_expr)
      items == IF IsRaise(b.start) THEN b.start
               ELSE IF IsRaise(b.end) THEN b.end
               ELSE IF IsRaise(b.step) THEN b.step
               ELSE GetSlice(obj, b.start.n, b.end.n, b.step.n)
  IN Except(IF IsRaise(items) THEN Ret(items)
            ELSE Expand(items.v, remaining, parts, Ret(Arr(<<>>))),
            {"ValueError", "TypeError"})

\* a single index
SingleBranch(obj, index_expr, remaining, parts) ==
  LET idx == ParseInt(index_expr)
      item == IF IsRaise(idx) THEN idx ELSE GetItem(obj, idx.n)
  IN Except(IF IsRaise(item) THEN Ret(item)
            ELSE Recurse(item, remaining, parts),
            {"ValueError", "TypeError", "IndexError"})

\* if match: ...
BracketPart(obj, current, match, remaining, parts) ==
  LET index_expr == match.group
      field == Strip(SubSeq(current, 1, match.start))
      o == FieldDescent(obj, field)
  IN IF IsRaise(o) THEN Ret(o)
     ELSE IF index_expr = <<"*">> THEN WildcardBranch(o, remaining, parts)
     ELSE IF Contains(index_expr, ":")
          THEN SliceBranch(o, index_expr, remaining, parts)
     ELSE SingleBranch(o, index_expr, remaining, parts)

\* the array index of a digit-only part
ArrayIndexPart(obj, current, remaining, parts) ==
  LET item == GetItem(obj, DecVal(current))
  IN Except(IF IsRaise(item) THEN Ret(item)
            ELSE Recurse(item, remaining, parts),
            {"ValueError", "IndexError"})

\* a part that holds a '.'
DotFallback(obj, current, remaining, parts) ==
  LET sub_paths == Split(current, ".")
      r == Recurse(obj, sub_paths \o remaining, parts)
  IN [r EXCEPT !.dot = TRUE]

\* RegularPart without the array index of a digit-only part
RegularPart_NoArrayIndex(obj, current, remaining, parts) ==
  IF IsDict(obj) /\ current \in DOMAIN obj.o
  THEN Recurse(obj.o[current], remaining, parts)
  ELSE IF Contains(current, ".")
       THEN DotFallback(obj, current, remaining, parts)
  ELSE Ret(Null)

\* a part with no index or slice syntax
RegularPart(obj, current, remaining, parts) ==
  IF IsDict(obj) /\ current \in DOMAIN obj.o
  THEN Recurse(obj.o[current], remaining, parts)
  ELSE IF IsList(obj) /\ IsDigit(current)
       THEN ArrayIndexPart(obj, current, remaining, parts)
  ELSE IF Contains(current, ".")
       THEN DotFallback(obj, current, remaining, parts)
  ELSE Ret(Null)

resolve_path(obj, parts) ==
  IF parts = <<>> \/ obj.t = "null" THEN Ret(obj)
  ELSE LET current == Head(parts)
           remaining == Tail(parts)
           match == IndexSearch(current)
       IN IF match.found
          THEN BracketPart(obj, current, match, remaining, parts)
          ELSE RegularPart(obj, current, remaining, parts)

(***************************************************************************)
(* parse_response                                                          *)
(***************************************************************************)
NonEmpty(s) == s # <<>>

\* PathParts with the path only trimmed, not split on '.'
PathParts_NoSplit(p) == SelectSeq(<<Strip(p)>>, NonEmpty)

\* [part.strip() for part in p.split('.') if part.strip()]
PathParts(p) ==
  LET sp == Split(p, ".")
  IN SelectSeq([i \in 1..Len(sp) |-> Strip(sp[i])], NonEmpty)

\* [resolve_path(data, ...) for p in paths]
RECURSIVE ResolveEach(_, _, _)
ResolveEach(d, ps, acc) ==
  IF ps = <<>> THEN acc
  ELSE LET r == resolve_path(d, PathParts(Head(ps)))
       IN IF IsRaise(r.out) THEN Merge(acc, r, r.out)
          ELSE ResolveEach(d, Tail(ps), Merge(acc, r, Arr(Append(acc.out.v, r.out))))

\* a path argument: a str (kept as the one entry of v), or a list of str
OnePath(p) == [k |-> "str", v |-> <<p>>]
PathList(ps) == [k |-> "list", v |-> ps]

parse_response(d, ps) ==
  IF ps.k = "str" THEN resolve_path(d, PathParts(ps.v[1]))
  ELSE ResolveEach(d, ps.v, Ret(Arr(<<>>)))

(***************************************************************************)
(* The arguments of parse_response the model draws: decoded values and     *)
(* path strings built from fields, bracket expressions and dots            *)
(***************************************************************************)
MaxTail == 1
MaxIdx == 3
MaxLen == 5
MaxList == 2
MaxCalls == 2

SeqsUpTo(S, n) == UNION {[1..k -> S] : k \in 0..n}

DigitChar(d) == CHOOSE c \in Digits : DigitVal(c) = d

\* str(n)
RECURSIVE NatToChars(_)
NatToChars(n) ==
  IF n < 10 THEN <<DigitChar(n)>>
  ELSE NatToChars(n \div 10) \o <<DigitChar(n % 10)>>

IntToChars(n) == IF n < 0 THEN <<"-">> \o NatToChars(0 - n) ELSE NatToChars(n)

\* '.'.join(segs)
RECURSIVE Join(_)
Join(segs) ==
  IF segs = <<>> THEN <<>>
  ELSE IF Len(segs) = 1 THEN segs[1]
  ELSE segs[1] \o <<".">> \o Join(Tail(segs))

Br(e) == <<"[">> \o e \o <<"]">>

ka == <<"a">>
kb == <<"b">>
kx == <<"x">>
k0 == <<"0">>

\* [10, 20, ...] of length n
Tens(n) == Arr([i \in 1..n |-> Num(10 * i)])

Data ==
  { Null, Bool(TRUE), Num(5), Str(<<"a", "b">>),
    Arr(<<>>), Obj(<<>>),
    Arr(<<Num(5), Num(6)>>),
    Arr(<<Num(1), Num(2), Num(3)>>),
    Arr(<<Arr(<<Num(1), Num(2)>>), Arr(<<Num(3), Num(4)>>)>>),
    Arr(<<Obj(kx :> Num(1)), Obj(kx :> Num(2))>>),
    Arr(<<Obj(ka :> Num(1)), Arr(<<Num(7)>>)>>),
    Arr(<<Null, Arr(<<Num(1)>>), Str(<<"a", "b">>)>>),
    Arr(<<Arr(<<Arr(<<Num(1)>>), Arr(<<Num(2)>>)>>), Arr(<<Num(3)>>)>>),
    Obj(ka :> Num(1)),
    Obj(ka :> Null),
    Obj(ka :> Str(<<"a", "b">>)),
    Obj(ka :> Num(1) @@ kb :> Num(2)),
    Obj(ka :> Arr(<<Num(9), Num(8), Num(7)>>)),
    Obj(ka :> Obj(kb :> Num(5) @@ kx :> Num(6))),
    Obj(kx :> Arr(<<Num(5), Num(6)>>) @@ k0 :> Num(3)),
    Obj(ka :> Arr(<<Obj(kx :> Arr(<<Num(1), Num(2)>>)), Obj(kx :> Num(3))>>)) }

Fields == {<<>>, ka, kx, k0, <<"5">>}

Brackets ==
  { <<>>, Br(<<"0">>), Br(<<"-", "1">>), Br(<<"1", "0">>), Br(<<" ", "1", " ">>),
    Br(<<"*">>), Br(<<"1", ":">>), Br(<<":", ":", "0">>), Br(<<"a", ":", "b">>),
    Br(<<>>), Br(<<"x">>) }

HeadSegs == {f \o b : f \in Fields, b \in Brackets} \ {<<>>}

TailSegs == {kx, Br(<<"0">>), Br(<<"*">>)}

\* paths the grammar of heads and tails does not build
ExtraPaths ==
  { <<>>, <<".">>, <<" ", "a", " ", ".", " ", "x", " ">>, <<"a", ".", ".", "x">>,
    <<"a", ".", "b">>, <<"a", "[", "1", ".", "5", "]">>, <<"[", "0">>,
    <<"a", "]", "b", "[", "1", "]">>, <<"[", "0", "]", "[", "1", "]">>,
    <<"a", ".", "0">>, <<"x", ".", "y">>, <<"0", ".", "5", "[", "0", "]">>,
    <<"[", "0", "]", ".", "5", "[", "0", "]">> }

GeneralPaths ==
  {Join(<<h>> \o tl) : h \in HeadSegs, tl \in SeqsUpTo(TailSegs, MaxTail)}
    \cup ExtraPaths

\* "s", "" (omitted) for each bound of a slice
BoundTexts == {<<>>} \cup {IntToChars(n) : n \in (0 - MaxIdx)..MaxIdx}

SlicePaths ==
  {Br(s \o <<":">> \o e) : s \in BoundTexts, e \in BoundTexts}
    \cup {Br(s \o <<":">> \o e \o <<":">> \o st) :
            s \in BoundTexts, e \in BoundTexts, st \in BoundTexts}

ListPaths == { ka, kb, Br(<<"0">>), Br(<<"*">>), <<"a", ".", "b">> }

Inputs ==
  {[data |-> d, paths |-> OnePath(p)] : d \in Data, p \in GeneralPaths}
    \cup {[data |-> Tens(n), paths |-> OnePath(p)] : n \in 0..MaxLen, p \in SlicePaths}
    \cup {[data |-> d, paths |-> PathList(ps)] :
            d \in Data, ps \in SeqsUpTo(ListPaths, MaxList)}

(***************************************************************************)
(* The state machine: a caller holds a decoded value and a path argument   *)
(* and calls parse_response on them, any number of times                   *)
(***************************************************************************)
NoResult == [t |-> "nocall"]

Init ==
  /\ py312 \in BOOLEAN
  /\ \E inp \in Inputs : data = inp.data /\ paths = inp.paths
  /\ result = NoResult
  /\ ncalls = 0

\* Call with the results list shared between calls instead of built per call
Call_SharedResults ==
  /\ ncalls < MaxCalls
  /\ LET r == parse_response(data, paths).out
     IN result' = IF ncalls > 0 /\ IsList(result) /\ IsList(r)
                  THEN Arr(result.v \o r.v) ELSE r
  /\ ncalls' = ncalls + 1
  /\ UNCHANGED <<data, paths, py312>>

\* result = parse_response(data, paths)
Call ==
  /\ ncalls < MaxCalls
  /\ result' = parse_response(data, paths).out
  /\ ncalls' = ncalls + 1
  /\ UNCHANGED <<data, paths, py312>>

Next == Call

Spec == Init /\ [][Next]_vars

Done == ncalls > 0

(***************************************************************************)
(* Vocabulary of the properties: the call in the current state, and the    *)
(* operations the specification names, written independently of the code   *)
(***************************************************************************)
IsSingle == paths.k = "str"
CurPath == paths.v[1]
CurParts == PathParts(CurPath)
CurHead == Head(CurParts)
CurTail == Tail(CurParts)
CurMatch == IndexSearch(CurHead)
CurField == Strip(SubSeq(CurHead, 1, CurMatch.start))
CurExpr == CurMatch.group

\* the outcome of resolving segs against v
Outcome(v, segs) == resolve_path(v, segs).out

\* one level of flattening: an array entry is spliced, any other entry is kept
RECURSIVE RefFlatten(_)
RefFlatten(seq) ==
  IF seq = <<>> THEN <<>>
  ELSE (IF Head(seq).t = "arr" THEN Head(seq).v ELSE <<Head(seq)>>)
         \o RefFlatten(Tail(seq))

RefHasBracket(s) ==
  \E i \in 1..Len(s) : \E j \in (i + 1)..Len(s) : s[i] = "[" /\ s[j] = "]"

RefAllDigits(s) ==
  /\ s # <<>>
  /\ \A i \in 1..Len(s) :
       \E d \in 0..9 : s[i] = <<"0", "1", "2", "3", "4", "5", "6", "7", "8", "9">>[d + 1]

\* a written slice bound: omitted, or an integer
OptInt(txt) ==
  IF txt = <<>> THEN [some |-> FALSE, n |-> 0]
  ELSE [some |-> TRUE, n |-> ParseInt(txt).n]

IsBoundText(txt) == txt = <<>> \/ ~IsRaise(ParseInt(txt))

RECURSIVE RefRange(_, _, _)
RefRange(i, stop, step) ==
  IF (step > 0 /\ i < stop) \/ (step < 0 /\ i > stop)
  THEN <<i>> \o RefRange(i + step, stop, step)
  ELSE <<>>

\* the standard slice seq[s:e:t] of an ordered sequence, with omitted bounds
\* defaulting by the sign of the step
RefStdSlice(seq, s, e, t) ==
  LET n == Len(seq)
      step == IF t.some THEN t.n ELSE 1
      lower == IF step > 0 THEN 0 ELSE 0 - 1
      upper == IF step > 0 THEN n ELSE n - 1
      adj(b) == LET x == IF b.n < 0 THEN b.n + n ELSE b.n
                IN IF x < lower THEN lower ELSE IF x > upper THEN upper ELSE x
      first == IF s.some THEN adj(s) ELSE IF step > 0 THEN lower ELSE upper
      stop == IF e.some THEN adj(e) ELSE IF step > 0 THEN upper ELSE lower
      ix == RefRange(first, stop, step)
  IN [k \in 1..Len(ix) |-> seq[ix[k] + 1]]

WildcardPath == <<"[", "*", "]">>

(***************************************************************************)
(* C1: parse_response never raises: for every value and every path the     *)
(* call returns a result, and every failure mode yields None.              *)
(***************************************************************************)
C1_NeverRaises == Done => ~IsRaise(result)

(***************************************************************************)
(* C2 as stated: "[*]" with no further segment over an array A returns a   *)
(* sequence equal to A, inner arrays kept as elements.                     *)
(***************************************************************************)
C2_WildcardKeepsInnerArrays ==
  (Done /\ IsSingle /\ CurPath = WildcardPath /\ IsList(data)) => result = data

(***************************************************************************)
(* C2 amended: "[*]" with no further segment over an array A returns A     *)
(* flattened by one level: every element of A that is an array is replaced *)
(* by its elements, in order, and every other element is kept; the result  *)
(* equals A exactly when no element of A is an array.                      *)
(***************************************************************************)
C2_WildcardFlattensOneLevel ==
  (Done /\ IsSingle /\ CurPath = WildcardPath /\ IsList(data)) =>
    /\ result = Arr(RefFlatten(data.v))
    /\ (result = data) <=> (\A i \in 1..Len(data.v) : data.v[i].t # "arr")

C2_Witness ==
  /\ Done /\ IsSingle /\ CurPath = WildcardPath
  /\ data = Arr(<<Arr(<<Num(1), Num(2)>>), Arr(<<Num(3), Num(4)>>)>>)
  /\ result = Arr(<<Num(1), Num(2), Num(3), Num(4)>>)

(***************************************************************************)
(* C3: a Wildcard or Slice segment applied to an array yields the          *)
(* concatenation, in array order, of the results of resolving the tail     *)
(* against each selected element: a result that is a sequence contributes  *)
(* its elements, any other result (absent included) exactly one entry.     *)
(***************************************************************************)
C3_Selected ==
  LET o == FieldDescent(data, CurField)
      b == SliceBounds(o, CurExpr)
  IN IF CurExpr = <<"*">> THEN o.v
     ELSE GetSlice(o, b.start.n, b.end.n, b.step.n).v

C3_Applies ==
  /\ Done /\ IsSingle /\ CurParts # <<>> /\ CurMatch.found
  /\ LET o == FieldDescent(data, CurField)
     IN /\ IsList(o)
        /\ \/ CurExpr = <<"*">>
           \/ /\ Contains(CurExpr, ":")
              /\ LET b == SliceBounds(o, CurExpr)
                 IN ~IsRaise(b.start) /\ ~IsRaise(b.end) /\ ~IsRaise(b.step)
                      /\ b.step.n # 0

\* the result of one element: what its resolution returns, absent when it fails
C3_PerElement(e) ==
  LET r == Outcome(e, CurTail) IN IF IsRaise(r) THEN Null ELSE r

C3_ExpansionIsConcatenation ==
  C3_Applies =>
    result = Arr(RefFlatten([i \in 1..Len(C3_Selected) |->
                               C3_PerElement(C3_Selected[i])]))

(***************************************************************************)
(* C4: "[s:e:t]" with each of s, e, t omitted or an integer (t non-zero),  *)
(* resolved with an empty tail over an array of non-sequence elements,     *)
(* yields exactly what the standard slice operator selects for the same    *)
(* written expression, for every combination of omitted bounds, negative   *)
(* indices and negative step.                                              *)
(***************************************************************************)
C4_Texts == Split(SubSeq(CurPath, 2, Len(CurPath) - 1), ":")

C4_Applies ==
  /\ Done /\ IsSingle /\ IsList(data)
  /\ \A i \in 1..Len(data.v) : data.v[i].t # "arr"
  /\ Len(CurPath) >= 3 /\ CurPath[1] = "[" /\ CurPath[Len(CurPath)] = "]"
  /\ ~Contains(CurPath, ".") /\ ~Contains(SubSeq(CurPath, 2, Len(CurPath)), "[")
  /\ ~Contains(SubSeq(CurPath, 1, Len(CurPath) - 1), "]")
  /\ Len(C4_Texts) \in {2, 3}
  /\ \A i \in 1..Len(C4_Texts) : IsBoundText(C4_Texts[i])
  /\ Len(C4_Texts) = 3 /\ C4_Texts[3] # <<>> => ParseInt(C4_Texts[3]).n # 0

C4_SliceIsStandardSlice ==
  C4_Applies =>
    result = Arr(RefStdSlice(data.v, OptInt(C4_Texts[1]), OptInt(C4_Texts[2]),
                             IF Len(C4_Texts) = 3 THEN OptInt(C4_Texts[3])
                             ELSE OptInt(<<>>)))

(***************************************************************************)
(* C5: for a Single(i) segment, the result is absent if the (possibly      *)
(* field-descended) value is not an array or i is outside its index range, *)
(* and otherwise exactly the result of resolving the tail against          *)
(* element i.                                                              *)
(***************************************************************************)
C5_Applies ==
  /\ Done /\ IsSingle /\ CurParts # <<>> /\ CurMatch.found
  /\ CurExpr # <<"*">> /\ ~Contains(CurExpr, ":") /\ ~IsRaise(ParseInt(CurExpr))
  /\ data.t # "null"
  /\ ~IsRaise(FieldDescent(data, CurField))

C5_SingleIndex ==
  C5_Applies =>
    LET o == FieldDescent(data, CurField)
        i == ParseInt(CurExpr).n
    IN IF ~IsList(o) \/ i >= Len(o.v) \/ i < 0 - Len(o.v) THEN result = Null
       ELSE result = Outcome(o.v[(IF i < 0 THEN i + Len(o.v) ELSE i) + 1], CurTail)

(***************************************************************************)
(* C6: parse_response(V, P) for a sequence of paths P returns a sequence   *)
(* of the same length whose i-th entry equals parse_response(V, P[i])      *)
(* taken alone; a path that fails to resolve is absent at its own          *)
(* position and leaves its siblings as they would be on their own.         *)
(***************************************************************************)
C6_Alone(i) ==
  LET r == parse_response(data, OnePath(paths.v[i])).out
  IN IF IsRaise(r) THEN Null ELSE r

C6_BatchIsPointwise ==
  (Done /\ ~IsSingle) =>
    /\ IsList(result)
    /\ Len(result.v) = Len(paths.v)
    /\ \A i \in 1..Len(paths.v) : result.v[i] = C6_Alone(i)

(***************************************************************************)
(* C7: for a segment without a bracket, resolution continues with the tail *)
(* into the entry of an object that has the field as a key; otherwise,     *)
(* into the element of an array at a digit-only field, or yields absent    *)
(* when that index is out of bounds; in every other case the result is     *)
(* absent.  (An IndexError escaping the tail of the array case is caught   *)
(* by this step and surfaces as absent.)                                   *)
(***************************************************************************)
C7_Applies == Done /\ IsSingle /\ CurParts # <<>> /\ ~RefHasBracket(CurHead)

C7_RegularSegment ==
  /\ C7_Applies =>
       IF data.t = "obj" /\ CurHead \in DOMAIN data.o
       THEN result = Outcome(data.o[CurHead], CurTail)
       ELSE IF data.t = "arr" /\ RefAllDigits(CurHead)
            THEN IF DecVal(CurHead) >= Len(data.v) THEN result = Null
                 ELSE LET r == Outcome(data.v[DecVal(CurHead) + 1], CurTail)
                      IN result = IF r = Raise("IndexError") THEN Null ELSE r
       ELSE result = Null
  /\ (Done /\ IsSingle /\ CurPath = <<"x", ".", "y">> /\ data = Obj(ka :> Num(1)))
       => result = Null
  /\ (Done /\ IsSingle /\ CurPath = <<"a", ".", "0">>
        /\ data = Obj(ka :> Arr(<<Num(9), Num(8), Num(7)>>)))
       => result = Num(9)

C7_Witness ==
  /\ C7_Applies /\ CurPath = <<"a", ".", "0">>
  /\ data = Obj(ka :> Arr(<<Num(9), Num(8), Num(7)>>))
  /\ result = Num(9)

C9_Applies ==
  /\ Done /\ IsSingle /\ CurParts # <<>> /\ RefHasBracket(CurHead)
  /\ CurField # <<>>
  /\ \/ data.t = "obj" /\ CurField \notin DOMAIN data.o
     \/ data.t # "obj" /\ ~(data.t = "arr" /\ RefAllDigits(CurField))

C9_InapplicableFieldIsSkipped ==
  /\ C9_Applies =>
       result = Outcome(data, <<SubSeq(CurHead, CurMatch.start + 1, Len(CurHead))>>
                                \o CurTail)
  /\ (Done /\ IsSingle /\ CurPath = <<"x", "[", "0", "]">>
        /\ data = Arr(<<Num(5), Num(6)>>))
       => result = Num(5)

C9_Witness ==
  /\ C9_Applies /\ CurPath = <<"x", "[", "0", "]">>
  /\ data = Arr(<<Num(5), Num(6)>>)
  /\ result = Num(5)

(***************************************************************************)
(* C10: in every call of resolve_path reachable from parse_response no     *)
(* element of the segment list holds a '.', so the embedded-dot fallback   *)
(* is never taken and every recursive call receives a strictly shorter     *)
(* segment list.                                                           *)
(***************************************************************************)
C10_NoDotInSegments ==
  Done =>
    \A i \in 1..Len(paths.v) :
      LET parts == PathParts(paths.v[i])
          r == resolve_path(data, parts)
      IN /\ \A k \in 1..Len(parts) : ~Contains(parts[k], ".")
         /\ ~r.dot
         /\ ~r.grow

C10_Witness ==
  /\ Done /\ IsSingle /\ CurPath = <<"a", ".", "b">> /\ Len(CurParts) = 2
  /\ data = Obj(ka :> Obj(kb :> Num(5) @@ kx :> Num(6)))
  /\ result = Num(5)

====
